---- MODULE Spec2Model ----
(***************************************************************************)
(* A model of the jam track generator: pitch-class arithmetic, modal       *)
(* scales and progressions (src/src/music_theory.rs), tone synthesis,      *)
(* chord mixing and track rendering (src/src/audio.rs) and the generator   *)
(* object that owns a configuration (src/src/lib.rs).                      *)
(*                                                                         *)
(* Conventions.                                                            *)
(*  - A Rust String is a sequence of one-character strings, so that case   *)
(*    folding and formatting are computed character by character.          *)
(*  - An f64/f32 value is an exact rational <<num, den>> in lowest terms   *)
(*    with den > 0; <<0, 0>> stands for a non-finite value (NaN, +-inf).   *)
(*    Time inputs are drawn from dyadic grids on which the products the    *)
(*    code takes with SAMPLE_RATE are exact in f64 too.                    *)
(*  - An i32 is an integer in I32_MIN..I32_MAX; an addition that leaves    *)
(*    the range panics when the build checks overflow and wraps otherwise. *)
(*  - Every call is an action that records the operation, its arguments    *)
(*    and its result in op, args and ret.                                  *)
(***************************************************************************)
EXTENDS Integers, Sequences, FiniteSets, TLC

VARIABLES
    overflow_checks,  \* build profile: TRUE = debug (overflow panics), FALSE = release (wraps)
    config,           \* JamTrackGenerator.config
    op,               \* the last operation called
    args,             \* its arguments
    ret               \* its result

vars == <<overflow_checks, config, op, args, ret>>

----------------------------------------------------------------------------
(* Bounds of the model *)

MaxKeyLen == 2          \* longest key string handed to Note::from_string
MaxConfigKeyLen == 2    \* longest key string stored in a configuration
MaxShift == 25          \* |semitones| of the small transpositions
MaxEdge == 12           \* how far from I32_MIN / I32_MAX the extreme transpositions reach
MaxDurationTicks == 5   \* longest tone/chord duration, in ticks of 1/32768 s
MaxPhaseTicks == 2      \* longest attack, decay or release time, in ticks of 1/32768 s
MaxChords == 2          \* longest progression handed to generate_progression_samples
MaxBuffers == 3         \* most buffers handed to mix_samples
MaxBufLen == 2          \* longest buffer handed to mix_samples
MaxFilterLen == 3       \* longest buffer handed to apply_lowpass_filter

----------------------------------------------------------------------------
(* Machine integers *)

I32_MAX == 2147483647
I32_MIN == (-2147483647) - 1

Panic == "panic"

I32AddOverflows(a, b) ==
    \/ b > 0 /\ a > I32_MAX - b
    \/ b < 0 /\ a < I32_MIN - b

\* a + b reduced into the i32 range (two's complement wrap-around),
\* computed without leaving the range
I32WrappingAdd(a, b) ==
    IF b > 0 /\ a > I32_MAX - b
        THEN I32_MIN + ((a - I32_MAX) + (b - 1))
    ELSE IF b < 0 /\ a < I32_MIN - b
        THEN I32_MAX + ((a - I32_MIN) + (b + 1))
    ELSE a + b

\* i32 `+` panics exactly when the sum leaves the range and the build checks overflow
I32AddPanics(a, b) == overflow_checks /\ I32AddOverflows(a, b)

\* i32::rem_euclid with a positive divisor
rem_euclid(a, m) == a % m

----------------------------------------------------------------------------
(* Characters and strings *)

LowerLetters == <<"a","b","c","d","e","f","g","h","i","j","k","l","m",
                  "n","o","p","q","r","s","t","u","v","w","x","y","z">>
UpperLetters == <<"A","B","C","D","E","F","G","H","I","J","K","L","M",
                  "N","O","P","Q","R","S","T","U","V","W","X","Y","Z">>

IndexIn(c, letters) ==
    IF \E i \in 1..Len(letters) : letters[i] = c
        THEN CHOOSE i \in 1..Len(letters) : letters[i] = c
        ELSE 0

char_to_uppercase(c) ==
    IF IndexIn(c, LowerLetters) > 0 THEN UpperLetters[IndexIn(c, LowerLetters)] ELSE c

char_to_lowercase(c) ==
    IF IndexIn(c, UpperLetters) > 0 THEN LowerLetters[IndexIn(c, UpperLetters)] ELSE c

to_uppercase(s) == [i \in 1..Len(s) |-> char_to_uppercase(s[i])]

to_lowercase(s) == [i \in 1..Len(s) |-> char_to_lowercase(s[i])]

\* all strings over chars of length at most n
StringsUpTo(chars, n) == UNION {[1..k -> chars] : k \in 0..n}

\* s occurs in t as a contiguous substring
Contains(t, s) ==
    \E k \in 0..(Len(t) - Len(s)) : SubSeq(t, k + 1, k + Len(s)) = s

----------------------------------------------------------------------------
(* Note *)

None == <<"None">>

Some(v) == <<"Some", v>>

\* the enum's variants in discriminant order C = 0 .. B = 11
NoteVariants == <<"C", "CSharp", "D", "DSharp", "E", "F",
                  "FSharp", "G", "GSharp", "A", "ASharp", "B">>

Note == {NoteVariants[i] : i \in 1..Len(NoteVariants)}

Note_from_string(s) ==
    LET u == to_uppercase(s) IN
    CASE u = <<"C">> -> Some("C")
      [] u = <<"C","#">> \/ u = <<"D","B">> -> Some("CSharp")
      [] u = <<"D">> -> Some("D")
      [] u = <<"D","#">> \/ u = <<"E","B">> -> Some("DSharp")
      [] u = <<"E">> \/ u = <<"F","B">> -> Some("E")
      [] u = <<"F">> \/ u = <<"E","#">> -> Some("F")
      [] u = <<"F","#">> \/ u = <<"G","B">> -> Some("FSharp")
      [] u = <<"G">> -> Some("G")
      [] u = <<"G","#">> \/ u = <<"A","B">> -> Some("GSharp")
      [] u = <<"A">> -> Some("A")
      [] u = <<"A","#">> \/ u = <<"B","B">> -> Some("ASharp")
      [] u = <<"B">> \/ u = <<"C","B">> -> Some("B")
      [] OTHER -> None

semitone(note) == IndexIn(note, NoteVariants) - 1

from_semitone(s) == NoteVariants[(s % 12) + 1]

transpose(note, semitones) ==
    IF I32AddPanics(semitone(note), semitones)
        THEN Panic
        ELSE LET new_value == rem_euclid(I32WrappingAdd(semitone(note), semitones), 12)
             IN from_semitone(new_value)

\* the exponent e of the frequency 440 * 2^(e/12) of the note at the octave
semitones_from_a4(note, octave) == (octave - 4) * 12 + (semitone(note) - 9)

Note_to_string(note) ==
    CASE note = "C" -> <<"C">>
      [] note = "CSharp" -> <<"C","#">>
      [] note = "D" -> <<"D">>
      [] note = "DSharp" -> <<"D","#">>
      [] note = "E" -> <<"E">>
      [] note = "F" -> <<"F">>
      [] note = "FSharp" -> <<"F","#">>
      [] note = "G" -> <<"G">>
      [] note = "GSharp" -> <<"G","#">>
      [] note = "A" -> <<"A">>
      [] note = "ASharp" -> <<"A","#">>
      [] note = "B" -> <<"B">>

----------------------------------------------------------------------------
(* Mode *)

Mode == {"Ionian", "Dorian", "Phrygian", "Lydian", "Mixolydian", "Aeolian", "Locrian"}

intervals(mode) ==
    CASE mode = "Ionian" -> <<0, 2, 4, 5, 7, 9, 11>>
      [] mode = "Dorian" -> <<0, 2, 3, 5, 7, 9, 10>>
      [] mode = "Phrygian" -> <<0, 1, 3, 5, 7, 8, 10>>
      [] mode = "Lydian" -> <<0, 2, 4, 6, 7, 9, 11>>
      [] mode = "Mixolydian" -> <<0, 2, 4, 5, 7, 9, 10>>
      [] mode = "Aeolian" -> <<0, 2, 3, 5, 7, 8, 10>>
      [] mode = "Locrian" -> <<0, 1, 3, 5, 6, 8, 10>>

Mode_from_string(s) ==
    LET l == to_lowercase(s) IN
    CASE l = <<"i","o","n","i","a","n">> \/ l = <<"m","a","j","o","r">> -> Some("Ionian")
      [] l = <<"d","o","r","i","a","n">> -> Some("Dorian")
      [] l = <<"p","h","r","y","g","i","a","n">> -> Some("Phrygian")
      [] l = <<"l","y","d","i","a","n">> -> Some("Lydian")
      [] l = <<"m","i","x","o","l","y","d","i","a","n">> -> Some("Mixolydian")
      [] l = <<"a","e","o","l","i","a","n">> \/ l = <<"m","i","n","o","r">> -> Some("Aeolian")
      [] l = <<"l","o","c","r","i","a","n">> -> Some("Locrian")
      [] OTHER -> None

\* scale with a fault: the pattern is read one place too far
scale_rotated(mode, root) ==
    [k \in 1..Len(intervals(mode)) |->
        transpose(root, intervals(mode)[(k % Len(intervals(mode))) + 1])]

scale(mode, root) ==
    [k \in 1..Len(intervals(mode)) |-> transpose(root, intervals(mode)[k])]

----------------------------------------------------------------------------
(* Chord *)

Chord_new(root, ivs, name) == [root |-> root, intervals |-> ivs, name |-> name]

notes(chord) ==
    [k \in 1..Len(chord.intervals) |-> transpose(chord.root, chord.intervals[k])]

frequencies(chord, octave) ==
    [k \in 1..Len(notes(chord)) |-> semitones_from_a4(notes(chord)[k], octave)]

major(root) == Chord_new(root, <<0, 4, 7>>, Note_to_string(root))

minor(root) == Chord_new(root, <<0, 3, 7>>, Note_to_string(root) \o <<"m">>)

diminished(root) == Chord_new(root, <<0, 3, 6>>, Note_to_string(root) \o <<"d","i","m">>)

sus2(root) == Chord_new(root, <<0, 2, 7>>, Note_to_string(root) \o <<"s","u","s","2">>)

sus4(root) == Chord_new(root, <<0, 5, 7>>, Note_to_string(root) \o <<"s","u","s","4">>)

power(root) == Chord_new(root, <<0, 7>>, Note_to_string(root) \o <<"5">>)

\* generate_modal_progression with a fault: Locrian's last chord on the wrong degree
generate_modal_progression_degree(root, mode) ==
    LET sc == scale(mode, root) IN
    CASE mode = "Phrygian" -> <<minor(sc[1]), major(sc[2]), minor(sc[1]), major(sc[7])>>
      [] mode = "Dorian" -> <<minor(sc[1]), major(sc[4]), minor(sc[1]), major(sc[4])>>
      [] mode = "Lydian" -> <<major(sc[1]), major(sc[2]), major(sc[1]), major(sc[2])>>
      [] mode = "Mixolydian" -> <<major(sc[1]), major(sc[7]), major(sc[1]), major(sc[7])>>
      [] mode = "Aeolian" -> <<minor(sc[1]), minor(sc[4]), minor(sc[1]), minor(sc[5])>>
      [] mode = "Ionian" -> <<major(sc[1]), major(sc[4]), major(sc[1]), major(sc[5])>>
      [] mode = "Locrian" -> <<diminished(sc[1]), major(sc[2]), diminished(sc[1]), major(sc[4])>>

generate_modal_progression(root, mode) ==
    LET sc == scale(mode, root) IN
    CASE mode = "Phrygian" -> <<minor(sc[1]), major(sc[2]), minor(sc[1]), major(sc[7])>>
      [] mode = "Dorian" -> <<minor(sc[1]), major(sc[4]), minor(sc[1]), major(sc[4])>>
      [] mode = "Lydian" -> <<major(sc[1]), major(sc[2]), major(sc[1]), major(sc[2])>>
      [] mode = "Mixolydian" -> <<major(sc[1]), major(sc[7]), major(sc[1]), major(sc[7])>>
      [] mode = "Aeolian" -> <<minor(sc[1]), minor(sc[4]), minor(sc[1]), minor(sc[5])>>
      [] mode = "Ionian" -> <<major(sc[1]), major(sc[4]), major(sc[1]), major(sc[5])>>
      [] mode = "Locrian" -> <<diminished(sc[1]), major(sc[2]), diminished(sc[1]), major(sc[5])>>

----------------------------------------------------------------------------
(* Floating point values as exact rationals *)

RECURSIVE Gcd(_, _)
Gcd(a, b) == IF b = 0 THEN a ELSE Gcd(b, a % b)

Abs(x) == IF x < 0 THEN -x ELSE x

NonFinite == <<0, 0>>

IsFinite(r) == r[2] # 0

\* n / d in lowest terms, d # 0
Rat(n, d) ==
    LET g == Gcd(Abs(n), Abs(d))
        sgn == IF d < 0 THEN -1 ELSE 1
    IN <<sgn * (n \div g), sgn * (d \div g)>>

FromInt(n) == <<n, 1>>

\* sums and products reduce before they multiply, to keep the terms small
RAdd(a, b) ==
    IF IsFinite(a) /\ IsFinite(b)
        THEN LET g == Gcd(a[2], b[2])
             IN Rat(a[1] * (b[2] \div g) + b[1] * (a[2] \div g), (a[2] \div g) * b[2])
        ELSE NonFinite

RNeg(a) == IF IsFinite(a) THEN <<-a[1], a[2]>> ELSE NonFinite

RSub(a, b) == RAdd(a, RNeg(b))

RMul(a, b) ==
    IF IsFinite(a) /\ IsFinite(b)
        THEN LET g1 == Gcd(Abs(a[1]), b[2])
                 g2 == Gcd(Abs(b[1]), a[2])
             IN Rat((a[1] \div g1) * (b[1] \div g2), (a[2] \div g2) * (b[2] \div g1))
        ELSE NonFinite

\* a division by zero yields a non-finite value (inf or NaN), never a failure
RDiv(a, b) ==
    IF IsFinite(a) /\ IsFinite(b) /\ b[1] # 0
        THEN RMul(a, IF b[1] < 0 THEN <<-b[2], -b[1]>> ELSE <<b[2], b[1]>>)
        ELSE NonFinite

RLe(a, b) == IsFinite(a) /\ IsFinite(b) /\ a[1] * b[2] <= b[1] * a[2]

RLt(a, b) == IsFinite(a) /\ IsFinite(b) /\ a[1] * b[2] < b[1] * a[2]

\* as_usize with a fault: rounds to the nearest integer
as_usize_nearest(r) ==
    IF IsFinite(r) /\ r[1] > 0 THEN (2 * r[1] + r[2]) \div (2 * r[2]) ELSE 0

\* `x as usize`: truncation toward zero, negative values and NaN saturate to 0
as_usize(r) == IF IsFinite(r) /\ r[1] > 0 THEN r[1] \div r[2] ELSE 0

saturating_sub(a, b) == IF a > b THEN a - b ELSE 0

----------------------------------------------------------------------------
(* Guitar chord fingerings *)

ChordTab_new(name, fingers, base_fret) ==
    [name |-> name, fingers |-> fingers, base_fret |-> base_fret]

\* the arms of get_chord_tab's match: <<pattern, the tab it returns>>
ChordTabArms == <<
    <<<<"C">>, ChordTab_new(<<"C">>, <<-1, 3, 2, 0, 1, 0>>, 0)>>,
    <<<<"C","m">>, ChordTab_new(<<"C","m">>, <<-1, 3, 5, 5, 4, 3>>, 0)>>,
    <<<<"C","d","i","m">>, ChordTab_new(<<"C","d","i","m">>, <<-1, 3, 4, 5, 4, -1>>, 0)>>,
    <<<<"C","#">>, ChordTab_new(<<"C","#">>, <<-1, 4, 6, 6, 6, 4>>, 0)>>,
    <<<<"C","#","m">>, ChordTab_new(<<"C","#","m">>, <<-1, 4, 6, 6, 5, 4>>, 0)>>,
    <<<<"C","#","d","i","m">>, ChordTab_new(<<"C","#","d","i","m">>, <<-1, 4, 5, 6, 5, -1>>, 0)>>,
    <<<<"D">>, ChordTab_new(<<"D">>, <<-1, -1, 0, 2, 3, 2>>, 0)>>,
    <<<<"D","m">>, ChordTab_new(<<"D","m">>, <<-1, -1, 0, 2, 3, 1>>, 0)>>,
    <<<<"D","d","i","m">>, ChordTab_new(<<"D","d","i","m">>, <<-1, -1, 0, 1, 3, 1>>, 0)>>,
    <<<<"D","#">>, ChordTab_new(<<"D","#">>, <<-1, -1, 1, 3, 4, 3>>, 0)>>,
    <<<<"D","#","m">>, ChordTab_new(<<"D","#","m">>, <<-1, -1, 1, 3, 4, 2>>, 0)>>,
    <<<<"D","#","d","i","m">>, ChordTab_new(<<"D","#","d","i","m">>, <<-1, -1, 1, 2, 4, 2>>, 0)>>,
    <<<<"E">>, ChordTab_new(<<"E">>, <<0, 2, 2, 1, 0, 0>>, 0)>>,
    <<<<"E","m">>, ChordTab_new(<<"E","m">>, <<0, 2, 2, 0, 0, 0>>, 0)>>,
    <<<<"E","d","i","m">>, ChordTab_new(<<"E","d","i","m">>, <<0, 1, 2, 0, 2, 0>>, 0)>>,
    <<<<"F">>, ChordTab_new(<<"F">>, <<1, 3, 3, 2, 1, 1>>, 0)>>,
    <<<<"F","m">>, ChordTab_new(<<"F","m">>, <<1, 3, 3, 1, 1, 1>>, 0)>>,
    <<<<"F","d","i","m">>, ChordTab_new(<<"F","d","i","m">>, <<1, 2, 3, 1, 3, 1>>, 0)>>,
    <<<<"F","#">>, ChordTab_new(<<"F","#">>, <<2, 4, 4, 3, 2, 2>>, 0)>>,
    <<<<"F","#","m">>, ChordTab_new(<<"F","#","m">>, <<2, 4, 4, 2, 2, 2>>, 0)>>,
    <<<<"F","#","d","i","m">>, ChordTab_new(<<"F","#","d","i","m">>, <<2, 3, 4, 2, 4, 2>>, 0)>>,
    <<<<"G">>, ChordTab_new(<<"G">>, <<3, 2, 0, 0, 0, 3>>, 0)>>,
    <<<<"G","m">>, ChordTab_new(<<"G","m">>, <<3, 5, 5, 3, 3, 3>>, 0)>>,
    <<<<"G","d","i","m">>, ChordTab_new(<<"G","d","i","m">>, <<3, 4, 5, 3, 5, 3>>, 0)>>,
    <<<<"G","#">>, ChordTab_new(<<"G","#">>, <<4, 6, 6, 5, 4, 4>>, 0)>>,
    <<<<"G","#","m">>, ChordTab_new(<<"G","#","m">>, <<4, 6, 6, 4, 4, 4>>, 0)>>,
    <<<<"G","#","d","i","m">>, ChordTab_new(<<"G","#","d","i","m">>, <<4, 5, 6, 4, 6, 4>>, 0)>>,
    <<<<"A">>, ChordTab_new(<<"A">>, <<-1, 0, 2, 2, 2, 0>>, 0)>>,
    <<<<"A","m">>, ChordTab_new(<<"A","m">>, <<-1, 0, 2, 2, 1, 0>>, 0)>>,
    <<<<"A","d","i","m">>, ChordTab_new(<<"A","d","i","m">>, <<-1, 0, 1, 2, 1, -1>>, 0)>>,
    <<<<"A","#">>, ChordTab_new(<<"A","#">>, <<-1, 1, 3, 3, 3, 1>>, 0)>>,
    <<<<"A","#","m">>, ChordTab_new(<<"A","#","m">>, <<-1, 1, 3, 3, 2, 1>>, 0)>>,
    <<<<"A","#","d","i","m">>, ChordTab_new(<<"A","#","d","i","m">>, <<-1, 1, 2, 3, 2, -1>>, 0)>>,
    <<<<"B">>, ChordTab_new(<<"B">>, <<-1, 2, 4, 4, 4, 2>>, 0)>>,
    <<<<"B","m">>, ChordTab_new(<<"B","m">>, <<-1, 2, 4, 4, 3, 2>>, 0)>>,
    <<<<"B","d","i","m">>, ChordTab_new(<<"B","d","i","m">>, <<-1, 2, 3, 4, 3, -1>>, 0)>> >>

\* get_chord_tab with a fault: the last arm of the match is missing
get_chord_tab_last_arm_missing(chord_name) ==
    IF \E k \in 1..(Len(ChordTabArms) - 1) : ChordTabArms[k][1] = chord_name
        THEN Some(ChordTabArms[CHOOSE k \in 1..(Len(ChordTabArms) - 1) :
                                   ChordTabArms[k][1] = chord_name][2])
        ELSE None

get_chord_tab(chord_name) ==
    IF \E k \in 1..Len(ChordTabArms) : ChordTabArms[k][1] = chord_name
        THEN Some(ChordTabArms[CHOOSE k \in 1..Len(ChordTabArms) :
                                   ChordTabArms[k][1] = chord_name][2])
        ELSE None

get_guitar_tab(chord) == get_chord_tab(chord.name)

----------------------------------------------------------------------------
(* Audio synthesis *)

SAMPLE_RATE == 44100

\* A frequency is carried as its exponent e (440 * 2^(e/12) Hz).  The sine of the
\* phase 2*PI*frequency*harmonic*t is not computable here: the phase is counted in
\* eighths of a turn and advances by a per-frequency step with every sample, so
\* that buffers of a few samples run through whole periods, and the sine is read
\* from a table of its values at those phases (7/10 for sin 45 degrees).
SineTable == <<Rat(0, 1), Rat(7, 10), Rat(1, 1), Rat(7, 10),
               Rat(0, 1), Rat(-7, 10), Rat(-1, 1), Rat(-7, 10)>>

PhaseStep(frequency) == (frequency % 7) + 1

sin_phase(frequency, harmonic, i) ==
    SineTable[((PhaseStep(frequency) * harmonic * i) % 8) + 1]

wave(frequency, i) ==
    LET fundamental == sin_phase(frequency, 1, i)
        harmonic2 == RMul(Rat(3, 10), sin_phase(frequency, 2, i))
        harmonic3 == RMul(Rat(1, 10), sin_phase(frequency, 3, i))
    IN RAdd(RAdd(fundamental, harmonic2), harmonic3)

\* phase with a fault: the attack test admits the index attack_samples itself
phase_attack_inclusive(i, attack_samples, decay_samples, sustain_samples) ==
    IF i <= attack_samples THEN "attack"
    ELSE IF i < attack_samples + decay_samples THEN "decay"
    ELSE IF i < attack_samples + decay_samples + sustain_samples THEN "sustain"
    ELSE "release"

\* the branch of the envelope's if-chain that sample index i (0-based) takes
phase(i, attack_samples, decay_samples, sustain_samples) ==
    IF i < attack_samples THEN "attack"
    ELSE IF i < attack_samples + decay_samples THEN "decay"
    ELSE IF i < attack_samples + decay_samples + sustain_samples THEN "sustain"
    ELSE "release"

\* envelope with a fault: the attack ramp reaches 1 on its last sample
envelope_full_attack(i, attack_samples, decay_samples, sustain_samples, release_samples, sustain_level) ==
    IF i < attack_samples THEN
        RDiv(FromInt(i + 1), FromInt(attack_samples))
    ELSE IF i < attack_samples + decay_samples THEN
        LET decay_progress == RDiv(FromInt(i - attack_samples), FromInt(decay_samples))
        IN RSub(FromInt(1), RMul(RSub(FromInt(1), sustain_level), decay_progress))
    ELSE IF i < attack_samples + decay_samples + sustain_samples THEN
        sustain_level
    ELSE
        LET release_progress ==
                RDiv(FromInt(i - attack_samples - decay_samples - sustain_samples),
                     FromInt(release_samples))
        IN RMul(sustain_level, RSub(FromInt(1), release_progress))

\* envelope with a fault: the release is timed from the end of the decay
envelope_release_from_decay(i, attack_samples, decay_samples, sustain_samples, release_samples, sustain_level) ==
    IF i < attack_samples THEN
        RDiv(FromInt(i), FromInt(attack_samples))
    ELSE IF i < attack_samples + decay_samples THEN
        LET decay_progress == RDiv(FromInt(i - attack_samples), FromInt(decay_samples))
        IN RSub(FromInt(1), RMul(RSub(FromInt(1), sustain_level), decay_progress))
    ELSE IF i < attack_samples + decay_samples + sustain_samples THEN
        sustain_level
    ELSE
        LET release_progress ==
                RDiv(FromInt(i - attack_samples - decay_samples), FromInt(release_samples))
        IN RMul(sustain_level, RSub(FromInt(1), release_progress))

\* the ADSR envelope at sample index i (0-based)
envelope(i, attack_samples, decay_samples, sustain_samples, release_samples, sustain_level) ==
    IF i < attack_samples THEN
        RDiv(FromInt(i), FromInt(attack_samples))
    ELSE IF i < attack_samples + decay_samples THEN
        LET decay_progress == RDiv(FromInt(i - attack_samples), FromInt(decay_samples))
        IN RSub(FromInt(1), RMul(RSub(FromInt(1), sustain_level), decay_progress))
    ELSE IF i < attack_samples + decay_samples + sustain_samples THEN
        sustain_level
    ELSE
        LET release_progress ==
                RDiv(FromInt(i - attack_samples - decay_samples - sustain_samples),
                     FromInt(release_samples))
        IN RMul(sustain_level, RSub(FromInt(1), release_progress))

generate_tone_with_envelope(frequency, duration_seconds, attack, decay, sustain_level, release) ==
    LET num_samples == as_usize(RMul(duration_seconds, FromInt(SAMPLE_RATE)))
        attack_samples == as_usize(RMul(attack, FromInt(SAMPLE_RATE)))
        decay_samples == as_usize(RMul(decay, FromInt(SAMPLE_RATE)))
        release_samples == as_usize(RMul(release, FromInt(SAMPLE_RATE)))
        sustain_samples ==
            saturating_sub(num_samples, attack_samples + decay_samples + release_samples)
    IN [j \in 1..num_samples |->
            RMul(RMul(wave(frequency, j - 1),
                      envelope(j - 1, attack_samples, decay_samples, sustain_samples,
                               release_samples, sustain_level)),
                 Rat(3, 10))]

\* mix_note with a fault: the note is added at full level
mix_note_unscaled(samples, note_samples, num_notes) ==
    [j \in 1..Len(samples) |->
        IF j <= Len(note_samples) THEN RAdd(samples[j], note_samples[j]) ELSE samples[j]]

\* the inner loop of generate_chord_samples: one note added into the chord buffer
mix_note(samples, note_samples, num_notes) ==
    [j \in 1..Len(samples) |->
        IF j <= Len(note_samples)
            THEN RAdd(samples[j], RDiv(note_samples[j], FromInt(num_notes)))
            ELSE samples[j]]

\* the outer loop of generate_chord_samples over frequencies[k..]
RECURSIVE mix_notes_from(_, _, _, _, _, _, _, _)
mix_notes_from(samples, freqs, k, duration_seconds, attack, decay, sustain, release) ==
    IF k > Len(freqs) THEN samples
    ELSE mix_notes_from(
            mix_note(samples,
                     generate_tone_with_envelope(freqs[k], duration_seconds, attack, decay,
                                                 sustain, release),
                     Len(freqs)),
            freqs, k + 1, duration_seconds, attack, decay, sustain, release)

generate_chord_samples(chord, octave, duration_seconds, attack, decay, sustain, release) ==
    LET num_samples == as_usize(RMul(duration_seconds, FromInt(SAMPLE_RATE)))
        samples == [j \in 1..num_samples |-> FromInt(0)]
    IN mix_notes_from(samples, frequencies(chord, octave), 1, duration_seconds,
                      attack, decay, sustain, release)

\* the loop of generate_progression_samples over chords[k..]
RECURSIVE extend_from(_, _, _, _, _, _, _, _, _)
extend_from(all_samples, chords, k, octave, chord_duration, attack, decay, sustain, release) ==
    IF k > Len(chords) THEN all_samples
    ELSE extend_from(
            all_samples \o generate_chord_samples(chords[k], octave, chord_duration,
                                                  attack, decay, sustain, release),
            chords, k + 1, octave, chord_duration, attack, decay, sustain, release)

\* generate_progression_samples with a fault: the chords are rendered last to first
generate_progression_samples_reversed(chords, octave, tempo, beats_per_chord) ==
    LET seconds_per_beat == RDiv(FromInt(60), tempo)
        chord_duration == RMul(seconds_per_beat, beats_per_chord)
        attack == Rat(1, 100)
        decay == Rat(1, 10)
        sustain == Rat(7, 10)
        release == RMul(chord_duration, Rat(3, 10))
        reversed == [k \in 1..Len(chords) |-> chords[Len(chords) + 1 - k]]
    IN extend_from(<<>>, reversed, 1, octave, chord_duration, attack, decay, sustain, release)

generate_progression_samples(chords, octave, tempo, beats_per_chord) ==
    LET seconds_per_beat == RDiv(FromInt(60), tempo)
        chord_duration == RMul(seconds_per_beat, beats_per_chord)
        attack == Rat(1, 100)
        decay == Rat(1, 10)
        sustain == Rat(7, 10)
        release == RMul(chord_duration, Rat(3, 10))
    IN extend_from(<<>>, chords, 1, octave, chord_duration, attack, decay, sustain, release)

RECURSIVE max_len_from(_, _)
max_len_from(buffers, k) ==
    IF k > Len(buffers) THEN 0
    ELSE LET rest == max_len_from(buffers, k + 1)
         IN IF Len(buffers[k]) > rest THEN Len(buffers[k]) ELSE rest

\* the loop of mix_samples over buffers[k..]
RECURSIVE mix_buffers_from(_, _, _)
mix_buffers_from(result, buffers, k) ==
    IF k > Len(buffers) THEN result
    ELSE mix_buffers_from(
            [j \in 1..Len(result) |->
                IF j <= Len(buffers[k])
                    THEN RAdd(result[j], RDiv(buffers[k][j], FromInt(Len(buffers))))
                    ELSE result[j]],
            buffers, k + 1)

\* mix_samples with a fault: the result is as long as the first buffer
mix_samples_first_len(buffers) ==
    IF Len(buffers) = 0 THEN <<>>
    ELSE LET result == [j \in 1..Len(buffers[1]) |-> FromInt(0)]
         IN mix_buffers_from(result, buffers, 1)

mix_samples(buffers) ==
    IF Len(buffers) = 0 THEN <<>>
    ELSE LET max_len == max_len_from(buffers, 1)
             result == [j \in 1..max_len |-> FromInt(0)]
         IN mix_buffers_from(result, buffers, 1)

\* std::f64::consts::PI is irrational: it is carried as the rational 22/7, and the
\* cutoff frequencies are chosen so that alpha comes out as 1/4, 1/2 or 3/4
PI == Rat(22, 7)

\* how a call of apply_lowpass_filter ends: the slice index panics, or the vector
\* is returned
IndexOutOfBounds == <<"Panic", "index out of bounds">>

Completed(v) == <<"Completed", v>>

\* the loop of apply_lowpass_filter from index i (1-based) on
RECURSIVE lowpass_from(_, _, _, _)
lowpass_from(filtered, samples, alpha, i) ==
    IF i > Len(samples) THEN filtered
    ELSE lowpass_from(
            [filtered EXCEPT ![i] =
                RAdd(filtered[i - 1], RMul(alpha, RSub(samples[i], filtered[i - 1])))],
            samples, alpha, i + 1)

\* apply_lowpass_filter with a fault: the filter starts from the last sample
apply_lowpass_filter_from_last(samples, cutoff_freq) ==
    LET rc == RDiv(FromInt(1), RMul(RMul(FromInt(2), PI), cutoff_freq))
        dt == RDiv(FromInt(1), FromInt(SAMPLE_RATE))
        alpha == RDiv(dt, RAdd(rc, dt))
        filtered == [j \in 1..Len(samples) |-> FromInt(0)]
    IN IF Len(samples) = 0 THEN IndexOutOfBounds
       ELSE Completed(lowpass_from([filtered EXCEPT ![1] = samples[Len(samples)]],
                                   samples, alpha, 2))

\* `filtered[0] = samples[0]` is an index out of bounds on an empty slice
apply_lowpass_filter(samples, cutoff_freq) ==
    LET rc == RDiv(FromInt(1), RMul(RMul(FromInt(2), PI), cutoff_freq))
        dt == RDiv(FromInt(1), FromInt(SAMPLE_RATE))
        alpha == RDiv(dt, RAdd(rc, dt))
        filtered == [j \in 1..Len(samples) |-> FromInt(0)]
    IN IF Len(samples) = 0 THEN IndexOutOfBounds
       ELSE Completed(lowpass_from([filtered EXCEPT ![1] = samples[1]],
                                   samples, alpha, 2))

----------------------------------------------------------------------------
(* Inputs of the music theory operations *)

KeyChars == {"A","B","C","D","E","F","G","a","b","c","d","e","f","g","#","H"}

KeyStrings == StringsUpTo(KeyChars, MaxKeyLen)

ModeNames == {<<"i","o","n","i","a","n">>, <<"m","a","j","o","r">>,
              <<"d","o","r","i","a","n">>, <<"p","h","r","y","g","i","a","n">>,
              <<"l","y","d","i","a","n">>, <<"m","i","x","o","l","y","d","i","a","n">>,
              <<"a","e","o","l","i","a","n">>, <<"m","i","n","o","r">>,
              <<"l","o","c","r","i","a","n">>}

Capitalized(s) == [i \in 1..Len(s) |-> IF i = 1 THEN char_to_uppercase(s[i]) ELSE s[i]]

\* each name in three letter cases, cut short by one letter, lengthened by one, and
\* some names of no mode
ModeStrings ==
    UNION {{n, Capitalized(n), to_uppercase(n), SubSeq(n, 1, Len(n) - 1), n \o <<"s">>,
            <<" ">> \o n} : n \in ModeNames}
    \cup {<<>>, <<"b","l","u","e","s">>, <<"I","o","n","i","a","n"," ">>}

SmallShifts == (-MaxShift)..MaxShift

ExtremeShifts == {I32_MIN + k : k \in 0..MaxEdge} \cup {I32_MAX - k : k \in 0..MaxEdge}

\* the chords of every constructor on every root
TabChords ==
    UNION {{major(r), minor(r), diminished(r), sus2(r), sus4(r), power(r)} : r \in Note}

\* the calls of the pure music theory operations: <<operation, arguments>>
TheoryCalls ==
    {<<"Note::from_string", [s |-> s]>> : s \in KeyStrings}
    \cup {<<"Mode::from_string", [s |-> s]>> : s \in ModeStrings}
    \cup {<<"Note::transpose", [self |-> p, semitones |-> n]>> :
            p \in Note, n \in SmallShifts \cup ExtremeShifts}
    \cup {<<"Mode::scale", [self |-> m, root |-> r]>> : m \in Mode, r \in Note}
    \cup {<<"generate_modal_progression", [root |-> r, mode |-> m]>> :
            r \in Note, m \in Mode}
    \cup {<<"Chord::get_guitar_tab", [self |-> c]>> : c \in TabChords}

----------------------------------------------------------------------------
(* The music theory operations as actions: each runs a pending call *)

Pending == <<"Pending">>

Returned(v) == <<"Returned", v>>

\* the value the last call returned
Result == ret[2]

Run(name) == op = name /\ ret = Pending

NoteFromString ==
    /\ Run("Note::from_string")
    /\ ret' = Returned(Note_from_string(args.s))
    /\ UNCHANGED <<overflow_checks, config, op, args>>

ModeFromString ==
    /\ Run("Mode::from_string")
    /\ ret' = Returned(Mode_from_string(args.s))
    /\ UNCHANGED <<overflow_checks, config, op, args>>

Transpose ==
    /\ Run("Note::transpose")
    /\ ret' = Returned(transpose(args.self, args.semitones))
    /\ UNCHANGED <<overflow_checks, config, op, args>>

ModeScale ==
    /\ Run("Mode::scale")
    /\ ret' = Returned(scale(args.self, args.root))
    /\ UNCHANGED <<overflow_checks, config, op, args>>

GenerateModalProgression ==
    /\ Run("generate_modal_progression")
    /\ ret' = Returned(generate_modal_progression(args.root, args.mode))
    /\ UNCHANGED <<overflow_checks, config, op, args>>

GetGuitarTab ==
    /\ Run("Chord::get_guitar_tab")
    /\ ret' = Returned(get_guitar_tab(args.self))
    /\ UNCHANGED <<overflow_checks, config, op, args>>

----------------------------------------------------------------------------
(* Inputs of the audio operations *)

\* m/32768 s: a dyadic time, so that time * SAMPLE_RATE is exact in f64
Ticks(m) == Rat(m, 32768)

Durations == {Ticks(m) : m \in 0..MaxDurationTicks}

PhaseTimes == {Ticks(m) : m \in 0..MaxPhaseTicks}

SustainLevels == {Rat(0, 1), Rat(1, 2), Rat(7, 10), Rat(1, 1)}

ToneFrequencies ==
    {semitones_from_a4("A", 4), semitones_from_a4("C", 4), semitones_from_a4("E", 3)}

AudioChords ==
    {major("C"), minor("A"), diminished("B"), power("E"), Chord_new("D", <<>>, <<"D","-">>)}

ProgressionChords == {major("C"), major("F"), minor("A")}

Progressions == UNION {[1..k -> ProgressionChords] : k \in 0..MaxChords}

\* tempos whose beat lasts 1, 2, 3 or 4 ticks: 60/tempo is exact in f64
Tempos == {Rat(1966080, 1), Rat(983040, 1), Rat(655360, 1), Rat(491520, 1)}

BeatCounts == {Rat(1, 2), Rat(1, 1), Rat(2, 1), Rat(4, 1)}

\* one track whose chords last 3840 ticks (5167 samples) at tempo 512, long enough
\* to run through attack, decay, sustain and release
LongProgression == <<major("C"), minor("A"), major("C")>>

LongTempo == Rat(512, 1)

SampleValues == {Rat(1, 2), Rat(-1, 1)}

Buffers == UNION {[1..k -> SampleValues] : k \in 0..MaxBufLen}

BufferLists == UNION {[1..k -> Buffers] : k \in 0..MaxBuffers}

FilterSampleValues == {Rat(0, 1), Rat(1, 2), Rat(-1, 1)}

FilterBuffers == UNION {[1..k -> FilterSampleValues] : k \in 0..MaxFilterLen}

\* cutoffs at which alpha is 1/2, 1/4 and 3/4
CutoffFrequencies == {Rat(77175, 11), Rat(25725, 11), Rat(231525, 11)}

\* the calls of the audio operations: <<operation, arguments>>
AudioCalls ==
    {<<"generate_tone_with_envelope",
       [frequency |-> f, duration_seconds |-> d, attack |-> a, decay |-> dc,
        sustain_level |-> s, release |-> r]>> :
            f \in ToneFrequencies, d \in Durations, a \in PhaseTimes, dc \in PhaseTimes,
            s \in SustainLevels, r \in PhaseTimes}
    \cup {<<"generate_chord_samples",
            [chord |-> c, octave |-> o, duration_seconds |-> d, attack |-> a,
             decay |-> dc, sustain |-> s, release |-> r]>> :
            c \in AudioChords, o \in {3, 4}, d \in Durations, a \in PhaseTimes,
            dc \in PhaseTimes, s \in {Rat(1, 2), Rat(7, 10)}, r \in PhaseTimes}
    \cup {<<"generate_progression_samples",
            [chords |-> cs, octave |-> 3, tempo |-> t, beats_per_chord |-> b]>> :
            cs \in Progressions, t \in Tempos, b \in BeatCounts}
    \cup {<<"generate_progression_samples",
            [chords |-> LongProgression, octave |-> 3, tempo |-> LongTempo,
             beats_per_chord |-> Rat(1, 1)]>>}
    \cup {<<"mix_samples", [buffers |-> bs]>> : bs \in BufferLists}
    \cup {<<"apply_lowpass_filter", [samples |-> b, cutoff_freq |-> c]>> :
            b \in FilterBuffers, c \in CutoffFrequencies}

----------------------------------------------------------------------------
(* The audio operations as actions: each runs a pending call *)

GenerateToneWithEnvelope ==
    /\ Run("generate_tone_with_envelope")
    /\ ret' = Returned(generate_tone_with_envelope(
                        args.frequency, args.duration_seconds, args.attack, args.decay,
                        args.sustain_level, args.release))
    /\ UNCHANGED <<overflow_checks, config, op, args>>

GenerateChordSamples ==
    /\ Run("generate_chord_samples")
    /\ ret' = Returned(generate_chord_samples(
                        args.chord, args.octave, args.duration_seconds, args.attack,
                        args.decay, args.sustain, args.release))
    /\ UNCHANGED <<overflow_checks, config, op, args>>

GenerateProgressionSamples ==
    /\ Run("generate_progression_samples")
    /\ ret' = Returned(generate_progression_samples(
                        args.chords, args.octave, args.tempo, args.beats_per_chord))
    /\ UNCHANGED <<overflow_checks, config, op, args>>

MixSamples ==
    /\ Run("mix_samples")
    /\ ret' = Returned(mix_samples(args.buffers))
    /\ UNCHANGED <<overflow_checks, config, op, args>>

ApplyLowpassFilter ==
    /\ Run("apply_lowpass_filter")
    /\ ret' = Returned(apply_lowpass_filter(args.samples, args.cutoff_freq))
    /\ UNCHANGED <<overflow_checks, config, op, args>>

----------------------------------------------------------------------------
(* The generator and its configuration *)

Ok(v) == <<"Ok", v>>

Err(msg) == <<"Err", msg>>

JamTrackConfig_new(key, mode, tempo) ==
    [key |-> key, mode |-> mode, tempo |-> tempo, octave |-> 3,
     beats_per_chord |-> Rat(4, 1)]

set_octave(cfg, octave) == [cfg EXCEPT !.octave = octave]

set_beats_per_chord(cfg, beats) == [cfg EXCEPT !.beats_per_chord = beats]

InvalidKey == <<"I","n","v","a","l","i","d"," ","k","e","y",":"," ">>

InvalidMode == <<"I","n","v","a","l","i","d"," ","m","o","d","e",":"," ">>

\* parse_config with a fault: the mode is parsed before the key
parse_config_mode_first(cfg) ==
    LET mode == Mode_from_string(cfg.mode) IN
    IF mode = None THEN Err(InvalidMode \o cfg.mode)
    ELSE LET root == Note_from_string(cfg.key) IN
         IF root = None THEN Err(InvalidKey \o cfg.key)
         ELSE Ok(<<root[2], mode[2]>>)

\* the parse of key and mode that opens generate_samples, get_progression_info and
\* get_chord_tabs: Ok(<<root, mode>>), or the error the `?` returns
parse_config(cfg) ==
    LET root == Note_from_string(cfg.key) IN
    IF root = None THEN Err(InvalidKey \o cfg.key)
    ELSE LET mode == Mode_from_string(cfg.mode) IN
         IF mode = None THEN Err(InvalidMode \o cfg.mode)
         ELSE Ok(<<root[2], mode[2]>>)

generate_samples(cfg) ==
    LET parsed == parse_config(cfg) IN
    IF parsed[1] = "Err" THEN parsed
    ELSE LET progression == generate_modal_progression(parsed[2][1], parsed[2][2])
         IN Ok(generate_progression_samples(progression, cfg.octave, cfg.tempo,
                                            cfg.beats_per_chord))

\* the value handed to serde_json::to_string: the chord names
get_progression_info(cfg) ==
    LET parsed == parse_config(cfg) IN
    IF parsed[1] = "Err" THEN parsed
    ELSE LET progression == generate_modal_progression(parsed[2][1], parsed[2][2])
         IN Ok([k \in 1..Len(progression) |-> progression[k].name])

\* the value handed to serde_json::to_string: the chords' tabs
get_chord_tabs(cfg) ==
    LET parsed == parse_config(cfg) IN
    IF parsed[1] = "Err" THEN parsed
    ELSE LET progression == generate_modal_progression(parsed[2][1], parsed[2][2])
         IN Ok([k \in 1..Len(progression) |-> get_guitar_tab(progression[k])])

ConfigKeyChars == {"C", "#", "b", "H"}

ConfigKeys == StringsUpTo(ConfigKeyChars, MaxConfigKeyLen)

ConfigModes == {<<"D","o","r","i","a","n">>, <<"b","l","u","e","s">>, <<>>}

ConfigTempos == {Rat(1966080, 1)}

NewConfigs ==
    {JamTrackConfig_new(k, m, t) : k \in ConfigKeys, m \in ConfigModes, t \in ConfigTempos}

Configs ==
    NewConfigs \cup {set_octave(c, 4) : c \in NewConfigs}
               \cup {set_beats_per_chord(c, Rat(1, 2)) : c \in NewConfigs}

UpdateConfig ==
    \E c \in Configs :
        /\ config' = c
        /\ op' = "update_config"
        /\ args' = c
        /\ ret' = Returned(<<>>)
        /\ UNCHANGED overflow_checks

GenerateSamples ==
    /\ op' = "generate_samples"
    /\ args' = <<>>
    /\ ret' = Returned(generate_samples(config))
    /\ UNCHANGED <<overflow_checks, config>>

GetProgressionInfo ==
    /\ op' = "get_progression_info"
    /\ args' = <<>>
    /\ ret' = Returned(get_progression_info(config))
    /\ UNCHANGED <<overflow_checks, config>>

GetChordTabs ==
    /\ op' = "get_chord_tabs"
    /\ args' = <<>>
    /\ ret' = Returned(get_chord_tabs(config))
    /\ UNCHANGED <<overflow_checks, config>>

----------------------------------------------------------------------------
(* Specifications *)

\* the generator right after JamTrackGenerator::new(config)
Init ==
    /\ overflow_checks \in BOOLEAN
    /\ config \in NewConfigs
    /\ op = "JamTrackGenerator::new"
    /\ args = config
    /\ ret = Returned(Ok(config))

Next == UpdateConfig \/ GenerateSamples \/ GetProgressionInfo \/ GetChordTabs

Spec == Init /\ [][Next]_vars

\* the generator of test_generator_creation (the pure operations never touch it)
\* and one pending call of a pure operation
InitCalls(calls) ==
    /\ overflow_checks \in BOOLEAN
    /\ config = JamTrackConfig_new(<<"C">>, <<"D","o","r","i","a","n">>, Rat(120, 1))
    /\ \E c \in calls : op = c[1] /\ args = c[2]
    /\ ret = Pending

InitTheory == InitCalls(TheoryCalls)

NextTheory ==
    NoteFromString \/ ModeFromString \/ Transpose \/ ModeScale \/ GenerateModalProgression
        \/ GetGuitarTab

SpecTheory == InitTheory /\ [][NextTheory]_vars

InitAudio == InitCalls(AudioCalls)

NextAudio ==
    GenerateToneWithEnvelope \/ GenerateChordSamples \/ GenerateProgressionSamples
        \/ MixSamples \/ ApplyLowpassFilter

SpecAudio == InitAudio /\ [][NextAudio]_vars

----------------------------------------------------------------------------
(* Properties *)

\* the last call was of operation `name` and has returned
Returns(name) == op = name /\ ret[1] = "Returned"

\* ---- the progression table of the design: <<quality, scale degree>> per chord
TemplateOf(mode) ==
    CASE mode = "Ionian" -> <<<<"maj", 0>>, <<"maj", 3>>, <<"maj", 0>>, <<"maj", 4>>>>
      [] mode = "Dorian" -> <<<<"min", 0>>, <<"maj", 3>>, <<"min", 0>>, <<"maj", 3>>>>
      [] mode = "Phrygian" -> <<<<"min", 0>>, <<"maj", 1>>, <<"min", 0>>, <<"maj", 6>>>>
      [] mode = "Lydian" -> <<<<"maj", 0>>, <<"maj", 1>>, <<"maj", 0>>, <<"maj", 1>>>>
      [] mode = "Mixolydian" -> <<<<"maj", 0>>, <<"maj", 6>>, <<"maj", 0>>, <<"maj", 6>>>>
      [] mode = "Aeolian" -> <<<<"min", 0>>, <<"min", 3>>, <<"min", 0>>, <<"min", 4>>>>
      [] mode = "Locrian" -> <<<<"dim", 0>>, <<"maj", 1>>, <<"dim", 0>>, <<"maj", 4>>>>

ShapeOf(quality) ==
    CASE quality = "maj" -> <<0, 4, 7>>
      [] quality = "min" -> <<0, 3, 7>>
      [] quality = "dim" -> <<0, 3, 6>>

SuffixOf(quality) ==
    CASE quality = "maj" -> <<>>
      [] quality = "min" -> <<"m">>
      [] quality = "dim" -> <<"d","i","m">>

NamesOf(chords) == [k \in 1..Len(chords) |-> chords[k].name]

\* C1: generate_modal_progression(root, mode) returns exactly 4 chords, the k-th
\* being the chord of the table's quality on the scale note at the table's degree,
\* named by the root's name followed by the quality's suffix; (C, Ionian) yields the
\* names C, F, C, G.
C1_ProgressionFollowsTable ==
    Returns("generate_modal_progression") =>
        LET sc == scale(args.mode, args.root)
            template == TemplateOf(args.mode)
        IN /\ Len(Result) = 4
           /\ \A k \in 1..4 :
                LET quality == template[k][1]
                    degree == template[k][2]
                IN /\ Result[k].root = sc[degree + 1]
                   /\ Result[k].intervals = ShapeOf(quality)
                   /\ Result[k].name = Note_to_string(sc[degree + 1]) \o SuffixOf(quality)
           /\ (args.root = "C" /\ args.mode = "Ionian"
                 => NamesOf(Result) = <<<<"C">>, <<"F">>, <<"C">>, <<"G">>>>)

C1_Witness ==
    /\ Returns("generate_modal_progression")
    /\ args.root = "B" /\ args.mode = "Locrian"
    /\ NamesOf(Result) = <<<<"B","d","i","m">>, <<"C">>, <<"B","d","i","m">>, <<"F">>>>

\* ---- the names the design documents for Note::from_string
DocumentedNames ==
    {<<<<"C">>, "C">>, <<<<"C","#">>, "CSharp">>, <<<<"D","b">>, "CSharp">>,
     <<<<"D">>, "D">>, <<<<"D","#">>, "DSharp">>, <<<<"E","b">>, "DSharp">>,
     <<<<"E">>, "E">>, <<<<"F","b">>, "E">>, <<<<"F">>, "F">>, <<<<"E","#">>, "F">>,
     <<<<"F","#">>, "FSharp">>, <<<<"G","b">>, "FSharp">>, <<<<"G">>, "G">>,
     <<<<"G","#">>, "GSharp">>, <<<<"A","b">>, "GSharp">>, <<<<"A">>, "A">>,
     <<<<"A","#">>, "ASharp">>, <<<<"B","b">>, "ASharp">>, <<<<"B">>, "B">>,
     <<<<"C","b">>, "B">>, <<<<"B","#">>, "C">>}

SameIgnoringCase(s, t) == to_lowercase(s) = to_lowercase(t)

\* C3: Note::from_string gives Some(pitch class) for every documented name (sharps,
\* flats and the aliases E# = F, Fb = E, B# = C, Cb = B) in any letter case, and None
\* for every other string.
C3_ParsesDocumentedNames ==
    Returns("Note::from_string") =>
        IF \E d \in DocumentedNames : SameIgnoringCase(d[1], args.s)
            THEN \E d \in DocumentedNames :
                    SameIgnoringCase(d[1], args.s) /\ Result = Some(d[2])
            ELSE Result = None

Distinct(seq) == \A i, j \in 1..Len(seq) : i # j => seq[i] # seq[j]

\* C4: Mode::scale(root) has 7 pairwise distinct pitch classes, starts with root, its
\* k-th element is root moved up by the mode's k-th interval, and each interval
\* pattern is strictly ascending from 0 within [0, 12); Phrygian on E is
\* E F G A B C D.
C4_ScaleFollowsIntervals ==
    Returns("Mode::scale") =>
        LET pattern == intervals(args.self) IN
        /\ Len(Result) = 7
        /\ Distinct(Result)
        /\ Result[1] = args.root
        /\ Len(pattern) = 7
        /\ pattern[1] = 0
        /\ \A k \in 1..6 : pattern[k] < pattern[k + 1]
        /\ \A k \in 1..7 : pattern[k] >= 0 /\ pattern[k] < 12
        /\ \A k \in 1..7 :
              /\ Result[k] \in Note
              /\ semitone(Result[k]) = (semitone(args.root) + pattern[k]) % 12
        /\ (args.self = "Phrygian" /\ args.root = "E"
              => Result = <<"E", "F", "G", "A", "B", "C", "D">>)

C4_Witness ==
    /\ Returns("Mode::scale")
    /\ args.self = "Locrian" /\ args.root = "B"
    /\ Result = <<"B", "C", "D", "E", "F", "G", "A">>

\* C5: p.transpose(n).transpose(-n) = p for every pitch class p and every n (whose
\* negation is an i32).
C5_TransposeRoundTrip ==
    (Returns("Note::transpose") /\ args.semitones > I32_MIN) =>
        /\ Result # Panic
        /\ transpose(Result, -args.semitones) = args.self

\* C6: Note::transpose(n) returns, for every n of the i32 range, the pitch class of
\* semitone value (v + n) mod 12 taken in unbounded integers: it never fails and the
\* sum v + n never wraps.
C6_TransposeTotal ==
    Returns("Note::transpose") =>
        /\ Result # Panic
        /\ semitone(Result) = (semitone(args.self) + (args.semitones % 12)) % 12

IsPrefix(p, t) == Len(p) <= Len(t) /\ SubSeq(t, 1, Len(p)) = p

ConfigCall == op \in {"generate_samples", "get_progression_info", "get_chord_tabs"}

\* C2: generate_samples, get_progression_info and get_chord_tabs never return Ok
\* when the configured key or mode does not parse: an unparsable key gives the key
\* error, whose message contains the key string (also when the mode is unparsable
\* too); otherwise an unparsable mode gives the mode error, whose message contains
\* the mode string.
C2_ParseErrorsSurface ==
    (ConfigCall /\ ret[1] = "Returned") =>
        /\ Note_from_string(config.key) = None =>
              /\ Result[1] = "Err"
              /\ IsPrefix(InvalidKey, Result[2])
              /\ Contains(Result[2], config.key)
        /\ (Note_from_string(config.key) # None /\ Mode_from_string(config.mode) = None) =>
              /\ Result[1] = "Err"
              /\ IsPrefix(InvalidMode, Result[2])
              /\ Contains(Result[2], config.mode)

C2_Witness ==
    /\ Returns("get_chord_tabs")
    /\ config.key = <<"H", "#">>
    /\ config.mode = <<"b","l","u","e","s">>
    /\ Result = Err(InvalidKey \o <<"H", "#">>)

\* round_down of a non-negative rational
RoundDown(r) == r[1] \div r[2]

\* C7 as claimed: the track of N chords has round_down(N * beatsPerChord *
\* (60/tempo) * 44100) samples.
C7_TrackLengthOfTotal ==
    Returns("generate_progression_samples") =>
        Len(Result) =
            RoundDown(RMul(RMul(RMul(FromInt(Len(args.chords)), args.beats_per_chord),
                                RDiv(FromInt(60), args.tempo)),
                           FromInt(44100)))

\* C7, amended: the track of N chords has N * round_down(beatsPerChord * (60/tempo)
\* * 44100) samples: every chord is cut to whole samples before the chords are
\* joined.
C7_TrackLengthPerChord ==
    Returns("generate_progression_samples") =>
        Len(Result) =
            Len(args.chords)
              * RoundDown(RMul(RMul(args.beats_per_chord, RDiv(FromInt(60), args.tempo)),
                               FromInt(44100)))

\* two chords of 2 ticks (2.69 samples) each: 4 samples, where the total duration
\* would hold 5
C7_Witness ==
    /\ Returns("generate_progression_samples")
    /\ Len(args.chords) = 2
    /\ args.tempo = Rat(1966080, 1) /\ args.beats_per_chord = Rat(2, 1)
    /\ Len(Result) = 4

RECURSIVE SumOver(_, _, _)
\* sum of f[k][i] / n over the k in 1..upto with Len(f[k]) >= i
SumOver(f, i, upto) ==
    IF upto = 0 THEN FromInt(0)
    ELSE RAdd(SumOver(f, i, upto - 1),
              IF i <= Len(f[upto]) THEN f[upto][i] ELSE FromInt(0))

TonesOf(a) ==
    [k \in 1..Len(frequencies(a.chord, a.octave)) |->
        generate_tone_with_envelope(frequencies(a.chord, a.octave)[k], a.duration_seconds,
                                    a.attack, a.decay, a.sustain, a.release)]

\* C8: generate_chord_samples returns round_down(duration * 44100) samples, every
\* tone it mixes has that many samples, and sample i is the sum of the tones'
\* samples i divided by the number of notes.
C8_ChordIsMeanOfTones ==
    Returns("generate_chord_samples") =>
        LET n == RoundDown(RMul(args.duration_seconds, FromInt(44100)))
            tones == TonesOf(args)
        IN /\ Len(Result) = n
           /\ \A k \in 1..Len(tones) : Len(tones[k]) = n
           /\ \A i \in 1..n :
                Result[i] = IF Len(tones) = 0 THEN FromInt(0)
                            ELSE RDiv(SumOver(tones, i, Len(tones)), FromInt(Len(tones)))

C8_Witness ==
    /\ Returns("generate_chord_samples")
    /\ Len(args.chord.intervals) = 3
    /\ Len(Result) = 6
    /\ \E i \in 1..6 : Result[i] # FromInt(0)

SamplesOf(seconds) == RoundDown(RMul(seconds, FromInt(44100)))

\* the envelope of the tone the last call rendered, at sample index i
ToneEnvelope(i) ==
    LET a == SamplesOf(args.attack)
        d == SamplesOf(args.decay)
        r == SamplesOf(args.release)
        n == SamplesOf(args.duration_seconds)
    IN envelope(i, a, d, saturating_sub(n, a + d + r), r, args.sustain_level)

ToneWithPhases ==
    /\ Returns("generate_tone_with_envelope")
    /\ SamplesOf(args.attack) > 0
    /\ SamplesOf(args.decay) > 0

\* C9 as claimed: the envelope at the last attack sample equals the envelope at the
\* first decay sample, both 1.
C9_EnvelopeMeetsAtOne ==
    ToneWithPhases =>
        /\ ToneEnvelope(SamplesOf(args.attack) - 1) = FromInt(1)
        /\ ToneEnvelope(SamplesOf(args.attack)) = FromInt(1)

\* C9, amended: the envelope at the first decay sample (index attack_samples) is 1,
\* and at the last attack sample (index attack_samples - 1) it is
\* (attack_samples - 1) / attack_samples, one ramp step below 1; the rendered
\* samples at those indices are the waveform times these values times 0.3.
C9_EnvelopeOneStepBelow ==
    ToneWithPhases =>
        LET a == SamplesOf(args.attack) IN
        /\ ToneEnvelope(a) = FromInt(1)
        /\ ToneEnvelope(a - 1) = Rat(a - 1, a)
        /\ RLt(ToneEnvelope(a - 1), FromInt(1))
        /\ a < Len(Result) =>
              /\ Result[a + 1] = RMul(wave(args.frequency, a), Rat(3, 10))
              /\ Result[a] = RMul(RMul(wave(args.frequency, a - 1), Rat(a - 1, a)),
                                  Rat(3, 10))

C9_Witness ==
    /\ ToneWithPhases
    /\ SamplesOf(args.attack) = 2
    /\ Len(Result) > 2
    /\ ToneEnvelope(1) = Rat(1, 2)
    /\ ToneEnvelope(2) = FromInt(1)
    /\ Result[3] # FromInt(0)

RECURSIVE MaxLen(_, _)
MaxLen(buffers, upto) ==
    IF upto = 0 THEN 0
    ELSE LET m == MaxLen(buffers, upto - 1)
         IN IF Len(buffers[upto]) > m THEN Len(buffers[upto]) ELSE m

\* C10: mix_samples of no buffer is empty; of N >= 1 buffers it has the length of
\* the longest, and sample i is the sum of the samples i of the buffers that reach
\* i, divided by N; N equal buffers of constant value v mix to value v.
C10_MixIsSumOverCount ==
    Returns("mix_samples") =>
        LET bs == args.buffers
            N == Len(bs)
        IN /\ N = 0 => Result = <<>>
           /\ N >= 1 =>
                /\ Len(Result) = MaxLen(bs, N)
                /\ \A i \in 1..Len(Result) :
                      Result[i] = RDiv(SumOver(bs, i, N), FromInt(N))
                /\ \A v \in SampleValues :
                      (\A k \in 1..N : bs[k] = bs[1] /\ \A i \in 1..Len(bs[k]) : bs[k][i] = v)
                          => \A i \in 1..Len(Result) : Result[i] = v

\* a long and a short buffer: the tail of the long one is divided by 2
C10_Witness ==
    /\ Returns("mix_samples")
    /\ args.buffers = <<<<Rat(1, 2), Rat(1, 2)>>, <<Rat(1, 2)>>>>
    /\ Result = <<Rat(1, 2), Rat(1, 4)>>

\* the samples the last call of apply_lowpass_filter returned
Filtered == Result[2]

\* C11: apply_lowpass_filter on an empty slice panics and returns no buffer; on a
\* non-empty slice it returns as many samples as it was given, the first equal to
\* the first input sample, and sample i is the same for every input that agrees
\* with this one on samples 0..i.
C11_LowpassEmptyFailsElseCausal ==
    Returns("apply_lowpass_filter") =>
        LET samples == args.samples IN
        /\ Len(samples) = 0 => Result = IndexOutOfBounds
        /\ Len(samples) > 0 =>
              /\ Result[1] = "Completed"
              /\ Len(Filtered) = Len(samples)
              /\ Filtered[1] = samples[1]
              /\ \A t \in FilterBuffers : \A i \in 1..Len(samples) :
                    (Len(t) >= i /\ SubSeq(t, 1, i) = SubSeq(samples, 1, i))
                        => apply_lowpass_filter(t, args.cutoff_freq)[2][i] = Filtered[i]

\* alpha = 1/2: each output is halfway between the previous output and the input
C11_Witness ==
    /\ Returns("apply_lowpass_filter")
    /\ args.samples = <<Rat(1, 2), Rat(-1, 1), Rat(1, 2)>>
    /\ args.cutoff_freq = Rat(77175, 11)
    /\ Result = Completed(<<Rat(1, 2), Rat(-1, 4), Rat(1, 8)>>)

\* the empty slice: the call ends in the panic
C11_EmptyPanics ==
    /\ Returns("apply_lowpass_filter")
    /\ args.samples = <<>>
    /\ Result = IndexOutOfBounds

\* the sample counts of the tone the last call rendered
ToneCounts ==
    LET a == SamplesOf(args.attack)
        d == SamplesOf(args.decay)
        r == SamplesOf(args.release)
        n == SamplesOf(args.duration_seconds)
    IN [total |-> n, attack |-> a, decay |-> d, release |-> r,
        sustain |-> IF n - a - d - r > 0 THEN n - a - d - r ELSE 0]

\* the phase of the tone the last call rendered, at sample index i
TonePhase(i) == phase(i, ToneCounts.attack, ToneCounts.decay, ToneCounts.sustain)

PhaseRank(ph) ==
    CASE ph = "attack" -> 1 [] ph = "decay" -> 2 [] ph = "sustain" -> 3 [] ph = "release" -> 4

\* the envelope the design gives to index i of phase ph, taken with the divisor the
\* phase divides by
PhaseValue(ph, i) ==
    LET c == ToneCounts
        level == args.sustain_level
    IN CASE ph = "attack" -> Rat(i, c.attack)
         [] ph = "decay" ->
              RSub(FromInt(1), RMul(RSub(FromInt(1), level), Rat(i - c.attack, c.decay)))
         [] ph = "sustain" -> level
         [] ph = "release" ->
              RMul(level, RSub(FromInt(1),
                               Rat(i - c.attack - c.decay - c.sustain, c.release)))

\* C12: with sustain_samples = max(0, total - attack - decay - release), every
\* sample index below total takes exactly one phase, the phases come in the order
\* attack, decay, sustain, release, a phase of 0 samples takes no index, and so no
\* division by attack_samples, decay_samples or release_samples has a zero divisor:
\* every envelope value and every sample is finite, also when attack + decay +
\* release exceeds total.
C12_PhasesPartitionNoZeroDivisor ==
    Returns("generate_tone_with_envelope") =>
        LET c == ToneCounts
            indices == 0..(c.total - 1)
        IN /\ Len(Result) = c.total
           /\ \A i \in indices :
                /\ TonePhase(i) \in {"attack", "decay", "sustain", "release"}
                /\ c[TonePhase(i)] > 0
                /\ ToneEnvelope(i) = PhaseValue(TonePhase(i), i)
                /\ IsFinite(ToneEnvelope(i))
                /\ IsFinite(Result[i + 1])
           /\ \A i, j \in indices : i < j => PhaseRank(TonePhase(i)) <= PhaseRank(TonePhase(j))
           /\ \A ph \in {"attack", "decay", "sustain"} :
                Cardinality({i \in indices : TonePhase(i) = ph}) <= c[ph]
           /\ Cardinality({i \in indices : TonePhase(i) = "release"}) <= c.release

\* attack 1, decay 0, release 2 in a tone of 2 samples: the sustain collapses, the
\* decay takes no index and the release starts at index 1
C12_Witness ==
    /\ Returns("generate_tone_with_envelope")
    /\ ToneCounts = [total |-> 2, attack |-> 1, decay |-> 0, release |-> 2, sustain |-> 0]
    /\ TonePhase(0) = "attack" /\ TonePhase(1) = "release"
    /\ args.sustain_level = Rat(7, 10)
    /\ ToneEnvelope(1) = Rat(7, 10)

\* the duration of one chord of the track the last call rendered
ChordDuration == RMul(RDiv(FromInt(60), args.tempo), args.beats_per_chord)

\* the k-th stretch of L samples of the track (k from 1)
Segment(k, L) == SubSeq(Result, (k - 1) * L + 1, k * L)

\* C13: the track is the chords' renderings end to end in progression order: with
\* L = round_down(chordDuration * 44100), the k-th stretch of L samples is exactly
\* generate_chord_samples(chord k, octave, chordDuration, 0.01, 0.1, 0.7,
\* 0.3 * chordDuration), nothing follows the last stretch, and equal chords at
\* different positions give equal stretches.
C13_TrackIsChordsEndToEnd ==
    Returns("generate_progression_samples") =>
        LET L == SamplesOf(ChordDuration)
            N == Len(args.chords)
        IN /\ Len(Result) = N * L
           /\ \A k \in 1..N :
                Segment(k, L) =
                    generate_chord_samples(args.chords[k], args.octave, ChordDuration,
                                           Rat(1, 100), Rat(1, 10), Rat(7, 10),
                                           RMul(Rat(3, 10), ChordDuration))
           /\ \A j, k \in 1..N : args.chords[j] = args.chords[k] => Segment(j, L) = Segment(k, L)

\* the long track: C, Am, C with 5167 samples each; the two C stretches are equal,
\* the Am stretch differs, and the sample at index 5000 lies in the release
C13_Witness ==
    /\ Returns("generate_progression_samples")
    /\ args.chords = LongProgression /\ args.tempo = LongTempo
    /\ SamplesOf(ChordDuration) = 5167
    /\ Len(Result) = 3 * 5167
    /\ Segment(1, 5167) = Segment(3, 5167)
    /\ Segment(1, 5167) # Segment(2, 5167)
    /\ phase(5000, 441, 4410, saturating_sub(5167, 441 + 4410 + 1550)) = "release"

\* how far into the release index i is, as a fraction of release_samples
ReleaseProgress(i) ==
    Rat(i - ToneCounts.attack - ToneCounts.decay - ToneCounts.sustain, ToneCounts.release)

\* C14: for a sustain level in [0, 1] the envelope at every sample index below total
\* lies in [0, 1]: in [0, 1) in the attack, in [sustain, 1] in the decay, equal to
\* the level in the sustain, and in [0, sustain] in the release, whose progress
\* stays strictly below 1, also when attack + decay + release exceeds total and
\* the sustain has no samples; each sample is waveform * envelope * 0.3.
C14_EnvelopeWithinUnitRange ==
    (Returns("generate_tone_with_envelope")
        /\ RLe(FromInt(0), args.sustain_level) /\ RLe(args.sustain_level, FromInt(1))) =>
        \A i \in 0..(ToneCounts.total - 1) :
            LET e == ToneEnvelope(i)
                ph == TonePhase(i)
            IN /\ RLe(FromInt(0), e) /\ RLe(e, FromInt(1))
               /\ ph = "attack" => RLt(e, FromInt(1))
               /\ ph = "decay" => RLe(args.sustain_level, e)
               /\ ph = "sustain" => e = args.sustain_level
               /\ ph = "release" =>
                     /\ RLe(e, args.sustain_level)
                     /\ RLe(FromInt(0), ReleaseProgress(i))
                     /\ RLt(ReleaseProgress(i), FromInt(1))
               /\ Result[i + 1] = RMul(RMul(wave(args.frequency, i), e), Rat(3, 10))

\* attack 1, decay 2, release 2 in a tone of 4 samples at level 1/2: no sustain,
\* and the envelope runs 0, 1, 3/4, 1/2
C14_Witness ==
    /\ Returns("generate_tone_with_envelope")
    /\ ToneCounts = [total |-> 4, attack |-> 1, decay |-> 2, release |-> 2, sustain |-> 0]
    /\ args.sustain_level = Rat(1, 2)
    /\ [i \in 0..3 |-> ToneEnvelope(i)] = [i \in 0..3 |->
            CASE i = 0 -> Rat(0, 1) [] i = 1 -> Rat(1, 1) [] i = 2 -> Rat(3, 4)
              [] i = 3 -> Rat(1, 2)]
    /\ TonePhase(3) = "release"

\* tab is Some fingering of six strings that carries the chord's name
IsTabOf(tab, chord) ==
    /\ tab[1] = "Some"
    /\ tab[2].name = chord.name
    /\ Len(tab[2].fingers) = 6

\* a configuration whose key and mode parse to root and mode
ConfigOf(root, mode) ==
    JamTrackConfig_new(Note_to_string(root),
                       CHOOSE n \in ModeNames : Mode_from_string(n) = Some(mode),
                       Rat(120, 1))

\* C15: for each of the 12 roots and 7 modes every chord of
\* generate_modal_progression(root, mode) has a fingering: get_guitar_tab gives
\* Some tab named like the chord with exactly 6 strings, and get_chord_tabs of a
\* configuration that parses to that root and mode is Ok with no missing
\* fingering; a major, minor or diminished chord on any root has one.
C15_ProgressionChordsHaveTabs ==
    /\ Returns("generate_modal_progression") =>
          /\ \A k \in 1..Len(Result) : IsTabOf(get_guitar_tab(Result[k]), Result[k])
          /\ LET tabs == get_chord_tabs(ConfigOf(args.root, args.mode))
             IN /\ tabs[1] = "Ok"
                /\ Len(tabs[2]) = Len(Result)
                /\ \A k \in 1..Len(Result) : IsTabOf(tabs[2][k], Result[k])
    /\ (Returns("Chord::get_guitar_tab")
          /\ args.self.intervals \in {<<0, 4, 7>>, <<0, 3, 7>>, <<0, 3, 6>>})
          => IsTabOf(Result, args.self)

\* F# Aeolian: F#m, Bm, F#m, C#m, each with its fingering
C15_Witness ==
    /\ Returns("generate_modal_progression")
    /\ args.root = "FSharp" /\ args.mode = "Aeolian"
    /\ [k \in 1..4 |-> get_guitar_tab(Result[k])] =
          <<Some(ChordTab_new(<<"F","#","m">>, <<2, 4, 4, 2, 2, 2>>, 0)),
            Some(ChordTab_new(<<"B","m">>, <<-1, 2, 4, 4, 3, 2>>, 0)),
            Some(ChordTab_new(<<"F","#","m">>, <<2, 4, 4, 2, 2, 2>>, 0)),
            Some(ChordTab_new(<<"C","#","m">>, <<-1, 4, 6, 6, 5, 4>>, 0))>>

====
